---- MODULE Spec2Model ----
(***************************************************************************)
(* Model of the transaction engine: the account registry (Accounts), the   *)
(* ledger of deposits and withdrawals (Transactions) and the account state *)
(* machine Account::mutate with its five process_* handlers, and of the    *)
(* driver try_main that reads, converts and applies the input records.     *)
(*                                                                         *)
(* Balances are Rust u32 values.  They are kept as two 16-bit limbs        *)
(* [hi, lo] (value = hi * 65536 + lo) so that the full 32-bit width, its   *)
(* wrap-around and its checked subtraction are computed exactly.           *)
(***************************************************************************)
EXTENDS Integers, Sequences, FiniteSets, TLC

VARIABLES accounts, trxs, last, step, used, reused, build, panicked,
          row, exit, output

vars == <<accounts, trxs, last, step, used, reused, build, panicked,
          row, exit, output>>

----------------------------------------------------------------------------
(* Bounds of the model *)

\* number of Account::mutate calls of a run of the library
MaxSteps == 5

\* number of records of an input file of the driver
MaxRecords == 3

\* Input domains of the client ids (u16) and the transaction ids (u32)
Clients == {1, 2}

TxIds == {1, 2}

----------------------------------------------------------------------------
(* u32 arithmetic on 16-bit limbs *)

Base == 65536

U32(h, l) == [hi |-> h, lo |-> l]

Zero == U32(0, 0)

U32_MAX == U32(Base - 1, Base - 1)

None == <<>>

Some(v) == <<v>>

Lt(a, b) == a.hi < b.hi \/ (a.hi = b.hi /\ a.lo < b.lo)

Le(a, b) == ~Lt(b, a)

Carry(a, b) == IF a.lo + b.lo >= Base THEN 1 ELSE 0

Overflows(a, b) == a.hi + b.hi + Carry(a, b) >= Base

wrapping_add(a, b) ==
    U32((a.hi + b.hi + Carry(a, b)) % Base, (a.lo + b.lo) % Base)

Borrow(a, b) == IF a.lo < b.lo THEN 1 ELSE 0

wrapping_sub(a, b) ==
    U32((a.hi - b.hi - Borrow(a, b)) % Base, (a.lo - b.lo) % Base)

checked_sub(a, b) == IF Lt(a, b) THEN None ELSE Some(wrapping_sub(a, b))

\* `x += y` on u32: with overflow checks (debug profile) an overflow panics,
\* without them (release profile) the sum wraps modulo 2^32.
add_assign(x, y) ==
    IF Overflows(x, y) /\ build = "debug" THEN None ELSE Some(wrapping_add(x, y))

\* z is the mathematical sum x + y (no wrap-around)
IsSum(z, x, y) == ~Overflows(x, y) /\ z = wrapping_add(x, y)

\* z is the mathematical difference x - y (no wrap-around)
IsDiff(z, x, y) == Le(y, x) /\ z = wrapping_sub(x, y)

Amounts == {U32(0, 5), U32_MAX}

OptAmounts == {None} \cup {Some(a) : a \in Amounts}

----------------------------------------------------------------------------
(* Data model *)

TransactionType == {"Deposit", "Withdrawal", "Dispute", "Resolve", "Chargeback"}

TransactionStatus == {"Ok", "Disputed", "Resolved", "Refunded"}

Mutation(id, kind, client, amount) ==
    [id |-> id, kind |-> kind, client |-> client, amount |-> amount]

Transaction(id, kind, client, amount) ==
    [id |-> id, kind |-> kind, client |-> client, amount |-> amount, status |-> "Ok"]

Account_new(client) ==
    [client |-> client, available |-> Zero, held |-> Zero, total |-> Zero,
     locked |-> FALSE]

\* HashMap::insert: adds the key or replaces the value stored under it
insert(map, k, v) == [x \in DOMAIN map \cup {k} |-> IF x = k THEN v ELSE map[x]]

\* account_for_id that stores a new account on every call
account_for_id_fresh(accs, client) == insert(accs, client, Account_new(client))

\* accounts.entry(client).or_insert(Account::new(client))
account_for_id(accs, client) ==
    IF client \in DOMAIN accs THEN accs ELSE insert(accs, client, Account_new(client))

\* TryInto<Transaction> for Mutation: None when the mutation has no amount
try_into(trx) ==
    IF trx.amount = None THEN None
    ELSE Some(Transaction(trx.id, trx.kind, trx.client, trx.amount[1]))

Outcome(self, t, res) == [self |-> self, trxs |-> t, res |-> res]

SetStatus(t, id, status) == [t EXCEPT ![id].status = status]

----------------------------------------------------------------------------
(* Account state machine: each handler maps (self, input, ledger) to the   *)
(* account and ledger it leaves behind and the value it returns.  res is   *)
(* "Ok", an "Err..." tag naming the eyre! message, or "Panic".             *)

process_deposit(self, trx, t) ==
    LET conv == try_into(trx) IN
    IF conv = None THEN Outcome(self, t, "ErrNoAmount")
    ELSE
      LET tr == conv[1]
          available == add_assign(self.available, tr.amount)
      IN IF available = None THEN Outcome(self, t, "Panic")
         ELSE
           LET s1 == [self EXCEPT !.available = available[1]]
               total == add_assign(s1.total, tr.amount)
           IN IF total = None THEN Outcome(s1, t, "Panic")
              ELSE Outcome([s1 EXCEPT !.total = total[1]],
                           insert(t, tr.id, tr), "Ok")

\* process_withdrawal with plain wrapping subtraction instead of checked_sub
process_withdrawal_unchecked(self, trx, t) ==
    LET conv == try_into(trx) IN
    IF conv = None THEN Outcome(self, t, "ErrNoAmount")
    ELSE
      LET tr == conv[1] IN
      Outcome([self EXCEPT !.available = wrapping_sub(self.available, tr.amount),
                           !.total = wrapping_sub(self.total, tr.amount)],
              insert(t, tr.id, tr), "Ok")

\* process_withdrawal that stores the entry before it checks the funds
process_withdrawal_recorded(self, trx, t) ==
    LET conv == try_into(trx) IN
    IF conv = None THEN Outcome(self, t, "ErrNoAmount")
    ELSE
      LET tr == conv[1]
          available == checked_sub(self.available, tr.amount)
          total == checked_sub(self.total, tr.amount)
      IN IF available = None \/ total = None
         THEN Outcome(self, insert(t, tr.id, tr), "ErrWithdraw")
         ELSE Outcome([self EXCEPT !.available = available[1], !.total = total[1]],
                      insert(t, tr.id, tr), "Ok")

process_withdrawal(self, trx, t) ==
    LET conv == try_into(trx) IN
    IF conv = None THEN Outcome(self, t, "ErrNoAmount")
    ELSE
      LET tr == conv[1]
          available == checked_sub(self.available, tr.amount)
          total == checked_sub(self.total, tr.amount)
      IN IF available = None \/ total = None THEN Outcome(self, t, "ErrWithdraw")
         ELSE Outcome([self EXCEPT !.available = available[1], !.total = total[1]],
                      insert(t, tr.id, tr), "Ok")

\* process_dispute that marks the entry Disputed and leaves the funds available
process_dispute_unheld(self, id, t) ==
    IF id \in DOMAIN t /\ t[id].status = "Ok" THEN
      Outcome(self, SetStatus(t, id, "Disputed"), "Ok")
    ELSE IF id \in DOMAIN t /\ t[id].kind # "Deposit" THEN
      Outcome(self, t, "ErrOnlyDeposits")
    ELSE Outcome(self, t, "Ok")

process_dispute(self, id, t) ==
    IF id \in DOMAIN t /\ t[id].status = "Ok" THEN
      LET amount == t[id].amount
          available == checked_sub(self.available, amount)
      IN IF available = None THEN Outcome(self, t, "ErrDispute")
         ELSE
           LET s1 == [self EXCEPT !.available = available[1]]
               held == add_assign(s1.held, amount)
           IN IF held = None THEN Outcome(s1, t, "Panic")
              ELSE Outcome([s1 EXCEPT !.held = held[1]],
                           SetStatus(t, id, "Disputed"), "Ok")
    ELSE IF id \in DOMAIN t /\ t[id].kind # "Deposit" THEN
      Outcome(self, t, "ErrOnlyDeposits")
    ELSE Outcome(self, t, "Ok")

process_resolve(self, id, t) ==
    IF id \in DOMAIN t /\ t[id].status = "Disputed" THEN
      LET amount == t[id].amount
          available == add_assign(self.available, amount)
      IN IF available = None THEN Outcome(self, t, "Panic")
         ELSE
           LET s1 == [self EXCEPT !.available = available[1]]
               held == checked_sub(s1.held, amount)
           IN IF held = None THEN Outcome(s1, t, "ErrResolve")
              ELSE Outcome([s1 EXCEPT !.held = held[1]],
                           SetStatus(t, id, "Resolved"), "Ok")
    ELSE Outcome(self, t, "Ok")

\* process_chargeback that also accepts an entry that is still Disputed
process_chargeback_disputed(self, id, t) ==
    IF id \in DOMAIN t /\ t[id].status \in {"Disputed", "Resolved"} THEN
      LET amount == t[id].amount
          available == checked_sub(self.available, amount)
          total == checked_sub(self.total, amount)
      IN IF available = None \/ total = None THEN Outcome(self, t, "ErrChargeback")
         ELSE Outcome([self EXCEPT !.available = available[1], !.total = total[1],
                                   !.locked = TRUE],
                      SetStatus(t, id, "Refunded"), "Ok")
    ELSE Outcome(self, t, "Ok")

process_chargeback(self, id, t) ==
    IF id \in DOMAIN t /\ t[id].status = "Resolved" THEN
      LET amount == t[id].amount
          available == checked_sub(self.available, amount)
          total == checked_sub(self.total, amount)
      IN IF available = None \/ total = None THEN Outcome(self, t, "ErrChargeback")
         ELSE Outcome([self EXCEPT !.available = available[1], !.total = total[1],
                                   !.locked = TRUE],
                      SetStatus(t, id, "Refunded"), "Ok")
    ELSE Outcome(self, t, "Ok")

\* mutate without the check of the locked flag
mutate_unlocked(self, trx, t) ==
    CASE trx.kind = "Deposit" -> process_deposit(self, trx, t)
      [] trx.kind = "Withdrawal" -> process_withdrawal(self, trx, t)
      [] trx.kind = "Dispute" -> process_dispute(self, trx.id, t)
      [] trx.kind = "Resolve" -> process_resolve(self, trx.id, t)
      [] trx.kind = "Chargeback" -> process_chargeback(self, trx.id, t)

mutate(self, trx, t) ==
    IF self.locked THEN Outcome(self, t, "ErrLocked")
    ELSE CASE trx.kind = "Deposit" -> process_deposit(self, trx, t)
           [] trx.kind = "Withdrawal" -> process_withdrawal(self, trx, t)
           [] trx.kind = "Dispute" -> process_dispute(self, trx.id, t)
           [] trx.kind = "Resolve" -> process_resolve(self, trx.id, t)
           [] trx.kind = "Chargeback" -> process_chargeback(self, trx.id, t)

----------------------------------------------------------------------------
(* State machine: one step is one call                                     *)
(*   accounts.account_for_id(trx.client).mutate(trx, &mut trxs)            *)
(* last records the mutation and the value the call returned; used and     *)
(* reused record whether a transaction id was carried by more than one     *)
(* Deposit/Withdrawal record.  A panic ends the process.  Dispute, Resolve *)
(* and Chargeback records carry no amount (the handlers never read it).    *)
(* step counts the calls; a run is followed for MaxSteps calls, also past  *)
(* a call that returned an error.  row, exit and output belong to the      *)
(* driver (the last record read, the exit status of the process and the    *)
(* account table written to stdout); the library alone leaves them as      *)
(* they start.                                                             *)

NoCall == [id |-> 0, kind |-> "None", client |-> 0, amount |-> None, res |-> "None"]

\* the last record read: its type, whether its amount column is filled and
\* what reading and converting it returned; here none has been read yet
NoRow == [kind |-> "None", has_amount |-> FALSE, res |-> "None"]

\* nothing has been written to stdout
NoOutput == [header |-> FALSE, rows |-> {}]

Init ==
    /\ accounts = << >>
    /\ trxs = << >>
    /\ last = NoCall
    /\ step = 0
    /\ used = {}
    /\ reused = FALSE
    /\ build \in {"debug", "release"}
    /\ panicked = FALSE
    /\ row = NoRow
    /\ exit = "Running"
    /\ output = NoOutput

\* the returned value is an Err(..)
IsErr(res) == res \notin {"Ok", "Panic", "None"}

\* accounts.account_for_id(trx.client).mutate(trx, &mut trxs): the registry,
\* the ledger and the returned value after the call
Call(trx) ==
    LET accs == account_for_id(accounts, trx.client)
        r == mutate(accs[trx.client], trx, trxs)
    IN [accounts |-> [accs EXCEPT ![trx.client] = r.self],
        trxs |-> r.trxs,
        last |-> [id |-> trx.id, kind |-> trx.kind, client |-> trx.client,
                  amount |-> trx.amount, res |-> r.res]]

\* Client and transaction ids are opaque map keys, only ever compared for
\* equality, so the inputs name them in order of first appearance: a record
\* carries a client id already in the registry or the first one not in it,
\* and a transaction id already carried by a Deposit/Withdrawal or the first
\* one not yet carried.
InputClients == {c \in Clients : c <= Cardinality(DOMAIN accounts) + 1}

InputTxIds == {id \in TxIds : id <= Cardinality(used) + 1}

Deposit ==
    \E c \in InputClients, id \in InputTxIds, a \in OptAmounts :
      LET n == Call(Mutation(id, "Deposit", c, a)) IN
      /\ ~panicked /\ step < MaxSteps
      /\ accounts' = n.accounts /\ trxs' = n.trxs /\ last' = n.last
      /\ panicked' = (n.last.res = "Panic")
      /\ step' = step + 1
      /\ used' = used \cup {id} /\ reused' = (reused \/ id \in used)
      /\ UNCHANGED <<build, row, exit, output>>

Withdrawal ==
    \E c \in InputClients, id \in InputTxIds, a \in OptAmounts :
      LET n == Call(Mutation(id, "Withdrawal", c, a)) IN
      /\ ~panicked /\ step < MaxSteps
      /\ accounts' = n.accounts /\ trxs' = n.trxs /\ last' = n.last
      /\ panicked' = (n.last.res = "Panic")
      /\ step' = step + 1
      /\ used' = used \cup {id} /\ reused' = (reused \/ id \in used)
      /\ UNCHANGED <<build, row, exit, output>>

Dispute ==
    \E c \in InputClients, id \in InputTxIds :
      LET n == Call(Mutation(id, "Dispute", c, None)) IN
      /\ ~panicked /\ step < MaxSteps
      /\ accounts' = n.accounts /\ trxs' = n.trxs /\ last' = n.last
      /\ panicked' = (n.last.res = "Panic")
      /\ step' = step + 1
      /\ UNCHANGED <<used, reused, build, row, exit, output>>

Resolve ==
    \E c \in InputClients, id \in InputTxIds :
      LET n == Call(Mutation(id, "Resolve", c, None)) IN
      /\ ~panicked /\ step < MaxSteps
      /\ accounts' = n.accounts /\ trxs' = n.trxs /\ last' = n.last
      /\ panicked' = (n.last.res = "Panic")
      /\ step' = step + 1
      /\ UNCHANGED <<used, reused, build, row, exit, output>>

Chargeback ==
    \E c \in InputClients, id \in InputTxIds :
      LET n == Call(Mutation(id, "Chargeback", c, None)) IN
      /\ ~panicked /\ step < MaxSteps
      /\ accounts' = n.accounts /\ trxs' = n.trxs /\ last' = n.last
      /\ panicked' = (n.last.res = "Panic")
      /\ step' = step + 1
      /\ UNCHANGED <<used, reused, build, row, exit, output>>

Next == Deposit \/ Withdrawal \/ Dispute \/ Resolve \/ Chargeback

Spec == Init /\ [][Next]_vars

----------------------------------------------------------------------------
(* The driver: try_main reads the records of the input one after the other, *)
(* converts each with CsvRow::as_mutation and applies it; main maps the     *)
(* value try_main returns to the exit status.                               *)

\* An f64 amount a of an input row, kept as the product a * 10_000.0 the
\* conversion computes: its sign, whether it is 2^32 or more, and its
\* integral part when it is less.
Float(neg, over, whole) == [neg |-> neg, over |-> over, whole |-> whole]

\* -0.0005, 0.0005 and 1e10
Floats ==
    {Float(TRUE, FALSE, U32(0, 5)), Float(FALSE, FALSE, U32(0, 5)),
     Float(FALSE, TRUE, Zero)}

OptFloats == {None} \cup {Some(f) : f \in Floats}

\* `p as u32` on an f64: truncates toward zero and saturates at 0 and u32::MAX
as_u32(p) == IF p.neg THEN Zero ELSE IF p.over THEN U32_MAX ELSE p.whole

CsvRow(kind, client, tx, amount) ==
    [kind |-> kind, client |-> client, tx |-> tx, amount |-> amount]

\* CsvRow::as_mutation without the error arm of (Withdrawal, None)
as_mutation_lenient(r) ==
    IF \/ r.kind = "Deposit" /\ r.amount = None
       \/ r.kind \in {"Dispute", "Resolve", "Chargeback"} /\ r.amount # None
    THEN None
    ELSE Some(Mutation(r.tx, r.kind, r.client,
                       IF r.amount = None THEN None ELSE Some(as_u32(r.amount[1]))))

\* CsvRow::as_mutation: None stands for the returned Err
as_mutation(r) ==
    IF \/ r.kind = "Deposit" /\ r.amount = None
       \/ r.kind = "Withdrawal" /\ r.amount = None
       \/ r.kind = "Dispute" /\ r.amount # None
       \/ r.kind = "Resolve" /\ r.amount # None
       \/ r.kind = "Chargeback" /\ r.amount # None
    THEN None
    ELSE Some(Mutation(r.tx, r.kind, r.client,
                       IF r.amount = None THEN None ELSE Some(as_u32(r.amount[1]))))

\* format!("{:.4}", v as f64 / 10_000.0): the integral part and the four
\* decimals of v / 10000, v = hi * 65536 + lo divided limb by limb
Decimal(v) ==
    LET rest == (v.hi % 10000) * Base + v.lo
    IN [int |-> (v.hi \div 10000) * Base + rest \div 10000, frac |-> rest % 10000]

\* the debug_assert_eq! of present::CsvRow::from_account fails
from_account_panics(acc) ==
    build = "debug" /\ ~IsSum(acc.total, acc.available, acc.held)

from_account(acc) ==
    [client |-> acc.client, available |-> Decimal(acc.available),
     held |-> Decimal(acc.held), total |-> Decimal(acc.total),
     locked |-> acc.locked]

\* main on an Err of try_main: the message is printed with eprintln!, which
\* panics when the write to stderr fails, and Exit::Failure is returned
\* when it does not
Reported == {"Failure", "Panic"}

\* reader() does not give a reader: it returns an Err (no argument, or the
\* file cannot be opened), or std::env::args() panics on an argument that
\* is not valid Unicode
ReaderFails ==
    /\ exit = "Running" /\ step = 0
    /\ \/ /\ row' = [NoRow EXCEPT !.res = "ErrOpen"]
          /\ exit' \in Reported
       \/ /\ row' = [NoRow EXCEPT !.res = "PanicArgs"]
          /\ exit' = "Panic"
    /\ panicked' = (exit' = "Panic")
    /\ UNCHANGED <<accounts, trxs, last, step, used, reused, build, output>>

\* `let record: parse::CsvRow = result?` on a record that does not
\* deserialize into a CsvRow
ReadMalformed ==
    /\ exit = "Running" /\ step < MaxRecords
    /\ row' = [NoRow EXCEPT !.res = "ErrCsv"]
    /\ exit' \in Reported
    /\ panicked' = (exit' = "Panic")
    /\ step' = step + 1
    /\ UNCHANGED <<accounts, trxs, last, used, reused, build, output>>

\* one iteration of the loop on a record that deserializes
ReadRecord ==
    \E kind \in TransactionType, c \in InputClients, id \in InputTxIds,
       a \in OptFloats :
      LET record == CsvRow(kind, c, id, a)
          trx == as_mutation(record)
      IN
      /\ exit = "Running" /\ step < MaxRecords
      /\ step' = step + 1
      /\ UNCHANGED <<build, output>>
      /\ IF trx = None
         THEN /\ row' = [kind |-> kind, has_amount |-> a # None, res |-> "ErrParse"]
              /\ exit' \in Reported
              /\ panicked' = (exit' = "Panic")
              /\ UNCHANGED <<accounts, trxs, last, used, reused>>
         ELSE LET n == Call(trx[1]) IN
              /\ row' = [kind |-> kind, has_amount |-> a # None, res |-> "Ok"]
              /\ accounts' = n.accounts /\ trxs' = n.trxs /\ last' = n.last
              /\ exit' \in IF n.last.res = "Panic" THEN {"Panic"}
                           ELSE IF IsErr(n.last.res) THEN Reported
                           ELSE {"Running"}
              /\ panicked' = (exit' = "Panic")
              /\ IF kind \in {"Deposit", "Withdrawal"}
                 THEN used' = used \cup {id} /\ reused' = (reused \/ id \in used)
                 ELSE UNCHANGED <<used, reused>>

\* the rows of the account table of the registry
AccountTable(accs) == {from_account(accs[c]) : c \in DOMAIN accs}

\* the whole output of a run: the header line, which the csv writer puts
\* before the first row it serializes, and one row per account (in the
\* iteration order of the HashMap, so the rows are a set)
Table(accs) == [header |-> DOMAIN accs # {}, rows |-> AccountTable(accs)]

\* what can have reached stdout when a write to it fails: nothing, or the
\* header and some of the rows
Partial(accs) ==
    {NoOutput} \cup
    {[header |-> TRUE, rows |-> R] : R \in SUBSET AccountTable(accs) \ {AccountTable(accs)}}

\* the input is exhausted: every account is serialized to stdout.  Either
\* every write succeeds and try_main returns Ok; or a write to stdout fails
\* (a full device, a closed pipe): when the writer reports it from
\* `writer.serialize(..)?` try_main returns the error with the lines written
\* before it left on stdout, and when it happens in the flush of the writer
\* as it is dropped the error is discarded and try_main returns Ok.  With
\* no account nothing is written.  A failing debug assertion of
\* from_account panics after the rows before it.  main reports a
\* returned error as it reports every other.
EndOfInput ==
    /\ exit = "Running"
    /\ IF \E c \in DOMAIN accounts : from_account_panics(accounts[c])
       THEN /\ exit' = "Panic"
            /\ panicked' = TRUE
            /\ \E S \in SUBSET {c \in DOMAIN accounts :
                                  ~from_account_panics(accounts[c])} :
                 output' = [header |-> S # {},
                            rows |-> {from_account(accounts[c]) : c \in S}]
       ELSE /\ \/ /\ exit' = "Success"
                  /\ output' = Table(accounts)
               \/ /\ DOMAIN accounts # {}
                  /\ output' \in Partial(accounts)
                  /\ exit' \in Reported \cup {"Success"}
            /\ panicked' = (exit' = "Panic")
    /\ UNCHANGED <<accounts, trxs, last, step, used, reused, build, row>>

NextMain == ReaderFails \/ ReadMalformed \/ ReadRecord \/ EndOfInput

\* the loop of try_main runs without waiting on anything but its input,
\* which is finite: the run keeps taking steps while one is possible
SpecMain == Init /\ [][NextMain]_vars /\ WF_vars(NextMain)

----------------------------------------------------------------------------
(* Vocabulary of the properties.  In an action formula the unprimed        *)
(* variables are the state before the call and last' is the call made.     *)

\* the step is a call of Account::mutate with a mutation of this kind
Called(kind) == step' # step /\ last'.kind = kind

\* the registry and the target account as mutate receives them
PreAccounts == account_for_id(accounts, last'.client)

PreAccount == PreAccounts[last'.client]

PostAccount == accounts'[last'.client]

\* the call left every account balance and every ledger entry as it was
NothingChanged == accounts' = PreAccounts /\ trxs' = trxs

----------------------------------------------------------------------------
(* C1 .. C5 *)

\* C1: for every account, in every state a sequence of Account::mutate calls
\* leaves behind (also after a call that returned an error),
\* total = available + held.
C1_TotalIsAvailablePlusHeld ==
    ~panicked =>
      \A c \in DOMAIN accounts :
        IsSum(accounts[c].total, accounts[c].available, accounts[c].held)

\* C2: once an account is locked it stays locked, and every later call of
\* Account::mutate on it returns an error and leaves the accounts and the
\* whole ledger unchanged.
C2_LockedIsTerminal ==
    [][\A c \in DOMAIN accounts :
         accounts[c].locked =>
           /\ c \in DOMAIN accounts'
           /\ accounts'[c].locked
           /\ (step' # step /\ last'.client = c) =>
                (IsErr(last'.res) /\ accounts' = accounts /\ trxs' = trxs)]_vars

\* a call was made on an account that was already locked and was refused
C2_Witness ==
    /\ last.res = "ErrLocked"
    /\ accounts[last.client].locked
    /\ \E id \in DOMAIN trxs : trxs[id].status = "Refunded"

\* C3: a Dispute that references a stored Withdrawal entry, whatever its
\* status, returns the only-deposits error and changes no balance and no
\* status; a Withdrawal entry never leaves status Ok.
C3_OnlyDepositsDisputed ==
    [][/\ (/\ Called("Dispute")
           /\ ~PreAccount.locked
           /\ last'.id \in DOMAIN trxs
           /\ trxs[last'.id].kind = "Withdrawal")
          => (last'.res = "ErrOnlyDeposits" /\ NothingChanged)
       /\ \A id \in DOMAIN trxs' :
            trxs'[id].kind = "Withdrawal" => trxs'[id].status = "Ok"]_vars

\* C4: when no transaction id is carried by more than one Deposit/Withdrawal
\* record, a ledger entry is never removed and its status only moves one
\* step along Ok -> Disputed -> Resolved -> Refunded, moved by the Dispute,
\* Resolve or Chargeback that references it; every other call leaves it.
C4_StatusLinear ==
    [][~reused' =>
         \A id \in DOMAIN trxs :
           /\ id \in DOMAIN trxs'
           /\ \/ trxs'[id].status = trxs[id].status
              \/ /\ trxs[id].status = "Ok" /\ trxs'[id].status = "Disputed"
                 /\ last'.kind = "Dispute" /\ last'.id = id
              \/ /\ trxs[id].status = "Disputed" /\ trxs'[id].status = "Resolved"
                 /\ last'.kind = "Resolve" /\ last'.id = id
              \/ /\ trxs[id].status = "Resolved" /\ trxs'[id].status = "Refunded"
                 /\ last'.kind = "Chargeback" /\ last'.id = id]_vars

\* an entry went through the whole chain in a run without a reused id,
\* and another entry is still waiting in an earlier stage
C4_Witness ==
    /\ ~reused
    /\ \E id \in DOMAIN trxs : trxs[id].status = "Refunded"
    /\ \E id \in DOMAIN trxs : trxs[id].status = "Ok"

\* C5: a Withdrawal whose amount exceeds available or total returns the
\* withdrawal error and changes no account field and no ledger entry; a
\* Withdrawal either lowers available and total by its amount together or
\* changes neither.
C5_WithdrawalAtomic ==
    [][(Called("Withdrawal") /\ ~PreAccount.locked /\ last'.amount # None) =>
         LET a == last'.amount[1] IN
         /\ (Lt(PreAccount.available, a) \/ Lt(PreAccount.total, a)) =>
              (last'.res = "ErrWithdraw" /\ NothingChanged)
         /\ \/ /\ PostAccount.available = PreAccount.available
               /\ PostAccount.total = PreAccount.total
            \/ /\ last'.res = "Ok"
               /\ IsDiff(PostAccount.available, PreAccount.available, a)
               /\ IsDiff(PostAccount.total, PreAccount.total, a)]_vars

\* a withdrawal larger than the funds of an account that holds funds was
\* refused
C5_Witness ==
    /\ last.kind = "Withdrawal"
    /\ last.res = "ErrWithdraw"
    /\ Lt(Zero, accounts[last.client].available)
    /\ Lt(accounts[last.client].available, last.amount[1])

----------------------------------------------------------------------------
(* C6 .. C10 *)

\* C6: a Deposit of amount a on an unlocked account succeeds and leaves
\* available' = available + a, total' = total + a, held and locked as they
\* were, and a ledger entry under its id with kind Deposit, the client,
\* amount a and status Ok.
C6_DepositEffect ==
    [][(Called("Deposit") /\ ~PreAccount.locked /\ last'.amount # None) =>
         LET a == last'.amount[1] IN
         /\ last'.res = "Ok"
         /\ IsSum(PostAccount.available, PreAccount.available, a)
         /\ IsSum(PostAccount.total, PreAccount.total, a)
         /\ PostAccount.held = PreAccount.held
         /\ PostAccount.locked = PreAccount.locked
         /\ last'.id \in DOMAIN trxs'
         /\ trxs'[last'.id] = Transaction(last'.id, "Deposit", last'.client, a)]_vars

\* C7: a Deposit whose amount would push available or total past the u32
\* maximum returns an error value; it neither wraps the balances nor panics.
C7_DepositOverflowIsError ==
    [][(/\ Called("Deposit") /\ ~PreAccount.locked /\ last'.amount # None
        /\ \/ Overflows(PreAccount.available, last'.amount[1])
           \/ Overflows(PreAccount.total, last'.amount[1]))
         => (IsErr(last'.res) /\ NothingChanged)]_vars

\* C8: a Chargeback that references a Resolved entry of amount a <= available
\* leaves available' = available - a, total' = total - a, held as it was,
\* the entry Refunded and the account locked; an account only becomes locked
\* by such a successful Chargeback on it.
C8_ChargebackEffect ==
    [][/\ (/\ Called("Chargeback") /\ ~PreAccount.locked
           /\ last'.id \in DOMAIN trxs
           /\ trxs[last'.id].status = "Resolved"
           /\ Le(trxs[last'.id].amount, PreAccount.available))
          => LET a == trxs[last'.id].amount IN
             /\ last'.res = "Ok"
             /\ IsDiff(PostAccount.available, PreAccount.available, a)
             /\ IsDiff(PostAccount.total, PreAccount.total, a)
             /\ PostAccount.held = PreAccount.held
             /\ PostAccount.locked
             /\ trxs'[last'.id].status = "Refunded"
       /\ \A c \in DOMAIN accounts' :
            (accounts'[c].locked /\ ~(c \in DOMAIN accounts /\ accounts[c].locked))
              => /\ last' = [id |-> last'.id, kind |-> "Chargeback", client |-> c,
                             amount |-> last'.amount, res |-> "Ok"]
                 /\ last'.id \in DOMAIN trxs
                 /\ trxs[last'.id].status = "Resolved"]_vars

\* C9: a Dispute that references a Deposit entry with status Ok and amount a:
\* if a <= available it leaves available' = available - a, held' = held + a,
\* total as it was and the entry Disputed; if a > available it returns the
\* dispute error and changes neither an account nor the ledger.
C9_DisputeEffect ==
    [][(/\ Called("Dispute") /\ ~PreAccount.locked
        /\ last'.id \in DOMAIN trxs
        /\ trxs[last'.id].kind = "Deposit"
        /\ trxs[last'.id].status = "Ok")
         => LET a == trxs[last'.id].amount IN
            IF Le(a, PreAccount.available)
            THEN /\ last'.res = "Ok"
                 /\ IsDiff(PostAccount.available, PreAccount.available, a)
                 /\ IsSum(PostAccount.held, PreAccount.held, a)
                 /\ PostAccount.total = PreAccount.total
                 /\ trxs'[last'.id].status = "Disputed"
            ELSE /\ last'.res = "ErrDispute"
                 /\ NothingChanged]_vars

\* C10: a Resolve that references a Disputed entry of amount a: if a <= held
\* it leaves available' = available + a, held' = held - a, total as it was
\* and the entry Resolved; if a > held it returns the resolve error and the
\* entry stays Disputed.
C10_ResolveEffect ==
    [][(/\ Called("Resolve") /\ ~PreAccount.locked
        /\ last'.id \in DOMAIN trxs
        /\ trxs[last'.id].status = "Disputed")
         => LET a == trxs[last'.id].amount IN
            IF Le(a, PreAccount.held)
            THEN /\ last'.res = "Ok"
                 /\ IsSum(PostAccount.available, PreAccount.available, a)
                 /\ IsDiff(PostAccount.held, PreAccount.held, a)
                 /\ PostAccount.total = PreAccount.total
                 /\ trxs'[last'.id].status = "Resolved"
            ELSE /\ last'.res = "ErrResolve"
                 /\ trxs'[last'.id].status = "Disputed"]_vars

----------------------------------------------------------------------------
(* C11 .. C20 *)

\* the step repeats the call made by the step before it
Repeated ==
    /\ step' # step
    /\ last'.kind = last.kind /\ last'.id = last.id /\ last'.client = last.client
    /\ last'.amount = last.amount

\* the cases process_dispute, process_resolve and process_chargeback ignore
Ignorable ==
    \/ /\ last'.kind = "Dispute"
       /\ \/ last'.id \notin DOMAIN trxs
          \/ trxs[last'.id].kind = "Deposit" /\ trxs[last'.id].status # "Ok"
    \/ /\ last'.kind = "Resolve"
       /\ \/ last'.id \notin DOMAIN trxs
          \/ trxs[last'.id].status # "Disputed"
    \/ /\ last'.kind = "Chargeback"
       /\ \/ last'.id \notin DOMAIN trxs
          \/ trxs[last'.id].status # "Resolved"

\* C11: a Dispute on an absent id or on a Deposit entry whose status is not
\* Ok, a Resolve on an absent id or on an entry that is not Disputed and a
\* Chargeback on an absent id or on an entry that is not Resolved return
\* success and change neither an account nor the ledger (the handlers run on
\* an account that is not locked); and a Dispute, Resolve or Chargeback that
\* repeats the call just made leaves the state as the first one left it.
C11_IgnorableNoOps ==
    [][/\ (step' # step /\ ~PreAccount.locked /\ Ignorable)
          => (last'.res = "Ok" /\ NothingChanged)
       /\ (Repeated /\ last'.kind \in {"Dispute", "Resolve", "Chargeback"})
          => (accounts' = accounts /\ trxs' = trxs)]_vars

\* the step reads a record of this kind, converts it and applies it
Read(kind) == step' # step /\ row'.res = "Ok" /\ last'.kind = kind

\* the run so far is a Deposit on a fresh account followed by a Dispute of
\* that deposit by the same client
DepositThenDispute ==
    /\ step = 2 /\ last.kind = "Dispute"
    /\ DOMAIN accounts = {last.client}
    /\ DOMAIN trxs = {last.id}
    /\ trxs[last.id].kind = "Deposit" /\ trxs[last.id].client = last.client

\* the step is a Withdrawal by the client of the last call of amount a
WithdrawalOf(a) ==
    Read("Withdrawal") /\ last'.client = last.client /\ last'.amount = Some(a)

\* the Withdrawal after the Dispute fails and leaves the funds held
WithdrawalFailsHeld(a) ==
    /\ last'.res = "ErrWithdraw"
    /\ PostAccount.available = Zero
    /\ PostAccount.held = a
    /\ PostAccount.total = a

\* C12 as stated, for every amount a: on a fresh account Deposit(a), Dispute
\* of that deposit, Withdrawal(a) makes the withdrawal fail and leaves
\* available = 0, held = a, total = a; Deposit(a), Withdrawal(a) makes the
\* withdrawal succeed with available = total = 0.
C12_OrderingAnyAmount ==
    [][/\ (DepositThenDispute /\ WithdrawalOf(trxs[last.id].amount))
          => WithdrawalFailsHeld(trxs[last.id].amount)
       /\ (step = 1 /\ last.kind = "Deposit" /\ last.res = "Ok"
           /\ WithdrawalOf(last.amount[1]))
          => /\ last'.res = "Ok"
             /\ PostAccount.available = Zero
             /\ PostAccount.total = Zero]_vars

\* C12: on a fresh account Deposit(a), Dispute of that deposit, Withdrawal(a)
\* with a > 0 makes the withdrawal fail and leaves available = 0, held = a,
\* total = a (a withdrawal of 0 succeeds, nothing being needed from the
\* available funds); Deposit(a), Withdrawal(a) makes the withdrawal succeed
\* with available = total = 0, for every a.
C12_OrderingSensitivity ==
    [][/\ (DepositThenDispute /\ Lt(Zero, trxs[last.id].amount)
           /\ WithdrawalOf(trxs[last.id].amount))
          => WithdrawalFailsHeld(trxs[last.id].amount)
       /\ (step = 1 /\ last.kind = "Deposit" /\ last.res = "Ok"
           /\ WithdrawalOf(last.amount[1]))
          => /\ last'.res = "Ok"
             /\ PostAccount.available = Zero
             /\ PostAccount.total = Zero]_vars

\* the failing Withdrawal(a), a > 0, after Deposit(a) and Dispute
C12_Witness ==
    /\ step = 3 /\ exit = "Failure"
    /\ last.kind = "Withdrawal" /\ last.res = "ErrWithdraw"
    /\ DOMAIN accounts = {last.client}
    /\ \E id \in DOMAIN trxs :
         /\ trxs[id].status = "Disputed" /\ trxs[id].kind = "Deposit"
         /\ last.amount = Some(trxs[id].amount)
         /\ Lt(Zero, trxs[id].amount)
         /\ accounts[last.client].held = trxs[id].amount

\* C13: a Deposit or Withdrawal whose transaction id is already present in
\* the ledger fails and leaves the stored entry as it was; no call changes
\* the kind, client or amount of a stored entry or removes an entry.
C13_InsertKeepsEntry ==
    [][\A id \in DOMAIN trxs :
         /\ id \in DOMAIN trxs'
         /\ trxs'[id].kind = trxs[id].kind
         /\ trxs'[id].client = trxs[id].client
         /\ trxs'[id].amount = trxs[id].amount
         /\ (step' # step /\ last'.kind \in {"Deposit", "Withdrawal"} /\ last'.id = id)
              => (IsErr(last'.res) /\ trxs'[id] = trxs[id])]_vars

\* the mutation of the call the step makes
LastMutation == Mutation(last'.id, last'.kind, last'.client, last'.amount)

\* the call fails before it touches the account, or finds nothing to do
FailsOrNoOp ==
    \/ last'.res \in {"ErrNoAmount", "ErrWithdraw"}
    \/ /\ last'.res = "Ok"
       /\ last'.kind \in {"Dispute", "Resolve", "Chargeback"}
       /\ last'.id \notin DOMAIN trxs

\* C14: a call for a client id not in the registry adds an account with
\* available = held = total = 0 and locked = false and hands it to mutate,
\* also when the mutation then fails or is a no-op; a call for a client id
\* in the registry hands the stored account to mutate; no account is ever
\* removed and the accounts of the other clients are left as they were.
C14_AccountForId ==
    [][step' # step =>
         LET c == last'.client IN
         /\ DOMAIN accounts' = DOMAIN accounts \cup {c}
         /\ \A d \in DOMAIN accounts \ {c} : accounts'[d] = accounts[d]
         /\ c \notin DOMAIN accounts =>
              LET zero == [client |-> c, available |-> Zero, held |-> Zero,
                           total |-> Zero, locked |-> FALSE]
              IN /\ accounts'[c] = mutate(zero, LastMutation, trxs).self
                 /\ FailsOrNoOp => accounts'[c] = zero
         /\ c \in DOMAIN accounts =>
              accounts'[c] = mutate(accounts[c], LastMutation, trxs).self]_vars

\* a client whose first record failed has a zero account, next to a client
\* whose account was referenced more than once and has kept its funds
C14_Witness ==
    /\ last.res = "ErrWithdraw"
    /\ accounts[last.client] = Account_new(last.client)
    /\ \E d \in DOMAIN accounts :
         /\ d # last.client
         /\ Lt(Zero, accounts[d].held)
         /\ Lt(Zero, accounts[d].available)

\* the step reads a record that yields an error: it does not deserialize,
\* as_mutation rejects it, or mutate returns an error
RecordFails ==
    /\ step' # step
    /\ row'.res # "Ok" \/ IsErr(last'.res)

\* C15: the driver applies the records in input order and aborts on the
\* first one that yields an error: nothing is applied after it, no account
\* table is output and the run ends in Failure; the run ends in Success,
\* with the final state of every account output, exactly when the input is
\* exhausted without an error; and every run on a finite input ends in
\* Success or in Failure, in nothing else.
C15_DriverOutcome ==
    /\ [][/\ exit # "Running" => FALSE
          /\ RecordFails => (exit' = "Failure" /\ output' = NoOutput)
          /\ exit' = "Failure" => output' = NoOutput
          /\ exit' = "Success" <=>
               (step' = step /\ row'.res \in {"None", "Ok"} /\ ~IsErr(last.res))
          /\ exit' = "Success" =>
               (accounts' = accounts /\ output' = Table(accounts))
          /\ exit' \in {"Running", "Success", "Failure"}]_vars
    /\ <>(exit \in {"Success", "Failure"})

\* a Deposit or Withdrawal without an amount, handed to mutate on any
\* account in this state, returns an error and changes nothing
NoAmountRejected ==
    \A c \in Clients, id \in TxIds, kind \in {"Deposit", "Withdrawal"} :
      LET n == Call(Mutation(id, kind, c, None)) IN
      /\ IsErr(n.last.res)
      /\ n.accounts = account_for_id(accounts, c)
      /\ n.trxs = trxs

\* C16: as_mutation fails exactly on a Deposit or Withdrawal row without an
\* amount and on a Dispute, Resolve or Chargeback row with one, so every
\* mutation the driver applies has an amount iff its kind is Deposit or
\* Withdrawal; and in every state a Deposit or Withdrawal without an amount
\* that reached mutate would return an error and change neither an account
\* nor the ledger.
C16_AmountPresence ==
    /\ [][(step' # step /\ row'.res \in {"Ok", "ErrParse"}) =>
            /\ row'.res = "ErrParse" <=>
                 \/ row'.kind \in {"Deposit", "Withdrawal"} /\ ~row'.has_amount
                 \/ /\ row'.kind \in {"Dispute", "Resolve", "Chargeback"}
                    /\ row'.has_amount
            /\ row'.res = "Ok" =>
                 /\ last'.kind = row'.kind
                 /\ last'.amount # None <=> last'.kind \in {"Deposit", "Withdrawal"}
                 /\ last'.res # "ErrNoAmount"]_vars
    /\ []NoAmountRejected

\* a Dispute row without an amount was converted and applied, then a
\* Deposit or Withdrawal row without an amount was rejected
C16_Witness ==
    /\ row.res = "ErrParse" /\ exit = "Failure"
    /\ row.kind \in {"Deposit", "Withdrawal"} /\ ~row.has_amount
    /\ last.kind = "Dispute" /\ last.amount = None /\ last.res = "Ok"
    /\ \E id \in DOMAIN trxs : trxs[id].status = "Disputed"

\* C17: the ledger gains an entry only by a Deposit or Withdrawal that
\* returns success, under the id of that mutation; a successful Deposit or
\* Withdrawal stores its id, kind, client and amount with status Ok; every
\* stored entry has kind Deposit or Withdrawal; a call that returns an error
\* (a failing Withdrawal, a call on a locked account) and every Dispute,
\* Resolve and Chargeback add no entry.
C17_LedgerEntries ==
    [][/\ \A id \in DOMAIN trxs' : trxs'[id].kind \in {"Deposit", "Withdrawal"}
       /\ \A id \in DOMAIN trxs' \ DOMAIN trxs :
            /\ last'.id = id
            /\ last'.kind \in {"Deposit", "Withdrawal"}
            /\ last'.res = "Ok"
       /\ (step' # step /\ last'.kind \in {"Deposit", "Withdrawal"} /\ last'.res = "Ok")
            => /\ last'.amount # None
               /\ trxs'[last'.id] =
                    [id |-> last'.id, kind |-> last'.kind, client |-> last'.client,
                     amount |-> last'.amount[1], status |-> "Ok"]
       /\ (step' # step
           /\ (last'.res # "Ok" \/ last'.kind \in {"Dispute", "Resolve", "Chargeback"}))
            => DOMAIN trxs' = DOMAIN trxs]_vars

\* a Withdrawal failed for insufficient funds and its id is not in the
\* ledger, which holds a Withdrawal that succeeded
C17_Witness ==
    /\ last.kind = "Withdrawal" /\ last.res = "ErrWithdraw"
    /\ last.id \notin DOMAIN trxs
    /\ \E id \in DOMAIN trxs : trxs[id].kind = "Withdrawal" /\ trxs[id].status = "Ok"

\* C18: a call of Account::mutate that returns an error, whatever the kind
\* of the mutation and the reason of the error, leaves available, held,
\* total and locked of the account and every ledger entry as they were
\* before the call.
C18_ErrorsChangeNothing ==
    [][(step' # step /\ IsErr(last'.res)) =>
         /\ PostAccount = PreAccount
         /\ \A c \in DOMAIN accounts : accounts'[c] = accounts[c]
         /\ trxs' = trxs]_vars

\* C19: a Dispute, Resolve or Chargeback whose client id differs from the
\* client id stored in the ledger entry it references changes no account and
\* leaves the status of that entry as it was.
C19_ForeignClientIgnored ==
    [][(/\ step' # step
        /\ last'.kind \in {"Dispute", "Resolve", "Chargeback"}
        /\ last'.id \in DOMAIN trxs
        /\ trxs[last'.id].client # last'.client)
         => /\ accounts' = PreAccounts
            /\ trxs'[last'.id].status = trxs[last'.id].status]_vars

\* the Dispute, Resolve or Chargeback of the step carries the client id of
\* the entry it references
OwnClient ==
    last'.id \in DOMAIN trxs => trxs[last'.id].client = last'.client

\* The runs of the library in which every transaction id is carried by at
\* most one Deposit/Withdrawal and every Dispute, Resolve and Chargeback
\* carries the client id of the entry it references.
NextOwn ==
    \/ Deposit /\ ~reused'
    \/ Withdrawal /\ ~reused'
    \/ Dispute /\ OwnClient
    \/ Resolve /\ OwnClient
    \/ Chargeback /\ OwnClient

SpecOwn == Init /\ [][NextOwn]_vars

\* the sum of the amounts of the entries ids of the ledger t, as a number
\* (hi is not reduced modulo 2^16: a sum of 2^32 or more equals no u32)
RECURSIVE SumAmounts(_, _)
SumAmounts(ids, t) ==
    IF ids = {} THEN Zero
    ELSE LET id == CHOOSE x \in ids : TRUE
             rest == SumAmounts(ids \ {id}, t)
             lo == rest.lo + t[id].amount.lo
         IN U32(rest.hi + t[id].amount.hi + lo \div Base, lo % Base)

Disputed(c) ==
    {id \in DOMAIN trxs : trxs[id].client = c /\ trxs[id].status = "Disputed"}

\* C20: in the runs of SpecOwn, in every state (of a process that has not
\* panicked) held of every account equals the sum of the amounts of the
\* Disputed entries of its client.
C20_HeldIsSumOfDisputed ==
    ~panicked =>
      \A c \in DOMAIN accounts : accounts[c].held = SumAmounts(Disputed(c), trxs)

====
